---- MODULE Spec2Model ----
(***************************************************************************)
(* The suggestion matcher/ranker of AIGamingAssistant:                     *)
(* AISuggestionPipeline.get_suggestions and _check_conditions              *)
(* (src/backend/ai_pipeline.py) over the rule table SUGGESTIONS            *)
(* (src/backend/suggestion_models.py), and what is around it: the update   *)
(* loop of src/main.py with the detector, the overlay's panel and the      *)
(* data collector.                                                         *)
(*                                                                         *)
(* Python values are tagged records, so that Python's == (which makes      *)
(* True == 1) is an operator of the model (PyEq) and not TLA+'s =.         *)
(***************************************************************************)
EXTENDS Integers, Sequences, FiniteSets

VARIABLES
    loaded,        \* which table was loaded into AISuggestionPipeline.suggestions
    state,         \* the state argument of the call
    game,          \* the game argument of the call ("" before the call)
    active,        \* active_suggestions when the filter loop ended
    result,        \* the list the call returned
    raised,        \* TRUE iff the call raised to its caller
    pc,            \* "build" before the call, "returned" after it
    lists,         \* the list objects: the table's lists by domain, and
                   \* each thread's active_suggestions; a list holds references
    rules,         \* the rule dicts of the table, by domain and reference
    th,            \* each thread's call: its position, arguments and locals
    done,          \* the calls that returned, in order: state, domain, returned list
    started,       \* how many calls were started
    labels,        \* OverlayWindow.suggestion_labels: text and style of each
    handed,        \* the list the update loop last gave to the overlay
    ticks,         \* how many timer ticks were handled
    session,       \* GameDataCollector.current_session: the records made
    captured,      \* TRUE iff the last tick captured a frame
    faulted,       \* TRUE iff get_suggestions caught an exception of its body
                   \* in the last tick
    threw,         \* TRUE iff the last tick ended in the handler of update()
    ml_out,        \* ml_predictions['suggestions'] of the last tick
    vision_out,    \* what vision_ai.suggest did in the last tick
    refreshed,     \* how many times overlay.update_suggestions was called
    asked,         \* how many times the loop called get_suggestions
    session_start, \* GameDataCollector.session_start
    files,         \* the session files on disk, by name
    now            \* the clock (datetime.now())

\* The lists active and result hold references to the rules of the table,
\* as the Python lists do: a reference is the position of the rule in its
\* domain's list.

\* the variables of one call, those of the concurrent calls, and those of
\* the update loop
pvars == << loaded, state, game, active, result, raised, pc >>
tvars == << lists, rules, th, done, started >>
lvars == << labels, handed, ticks, session, captured, faulted, threw, ml_out,
           vision_out, refreshed, asked, session_start, files, now >>

vars == << pvars, tvars, lvars >>

---------------------------------------------------------------------------
(* Bounds of the checked input space.                                      *)

\* the most fields a state of Spec holds
MaxFields == 4
\* the most fields a state of SpecFault holds
MaxFaultFields == 1
\* the most conditions of the generated rule of SpecCond
MaxConds == 2

---------------------------------------------------------------------------
(* Python values.  A scalar is [t, n, s]; a value that may be a one-level  *)
(* dict is [t, n, s, d] with d the dict's entries, a function from its     *)
(* keys.  The tag "absent" marks a field a malformed rule lacks.           *)

Absent == [t |-> "absent", n |-> 0, s |-> ""]
PyBool(b) == [t |-> "bool", n |-> IF b THEN 1 ELSE 0, s |-> ""]
PyInt(i) == [t |-> "int", n |-> i, s |-> ""]
PyStr(x) == [t |-> "str", n |-> 0, s |-> x]
PyNone == [t |-> "none", n |-> 0, s |-> ""]

\* the dict {}
NoSub == [k \in {} |-> Absent]

\* the dict f with f[k] = v
Put(f, k, v) == [x \in DOMAIN f \cup {k} |-> IF x = k THEN v ELSE f[x]]

\* a scalar as a top-level value
Lift(x) == [t |-> x.t, n |-> x.n, s |-> x.s, d |-> NoSub]
\* a dict as a top-level value
PyDict(d) == [t |-> "dict", n |-> 0, s |-> "", d |-> d]
\* Mutant of PyEqScalar: values are compared with "is not": two strings are
\* taken as different objects.
PyEqScalarIs(a, b) ==
    \/ a.t = "bool" /\ b.t = "bool" /\ a.n = b.n
    \/ a.t = "none" /\ b.t = "none"

\* Python's == on scalars: bool is a subclass of int, so True == 1
PyEqScalar(a, b) ==
    \/ a.t \in {"bool", "int"} /\ b.t \in {"bool", "int"} /\ a.n = b.n
    \/ a.t = "str" /\ b.t = "str" /\ a.s = b.s
    \/ a.t = "none" /\ b.t = "none"

\* Python's == on top-level values: dicts are equal iff they hold the same
\* keys with equal values; a dict never equals a scalar
PyEq(a, b) ==
    IF a.t = "dict" /\ b.t = "dict"
    THEN /\ DOMAIN a.d = DOMAIN b.d
         /\ \A k \in DOMAIN a.d : PyEqScalar(a.d[k], b.d[k])
    ELSE a.t # "dict" /\ b.t # "dict" /\ PyEqScalar(a, b)

---------------------------------------------------------------------------
(* The rule table.                                                         *)

\* one (key, value) item of a conditions dict, in insertion order
Cond(k, v) == [key |-> k, value |-> IF v.t = "dict" THEN v ELSE Lift(v)]

\* Mutant of Rule: the catch-all rule (no conditions) gets the priority of
\* the most urgent rules.
RuleCatchAllUrgent(id, text, priority, conds) ==
    [kind |-> "dict", id |-> id, text |-> text,
     priority |-> IF conds = << >> THEN PyInt(1) ELSE PyInt(priority),
     conditions |-> [t |-> "dict", items |-> conds]]

\* a well-formed rule: a dict with id, text, priority and conditions
Rule(id, text, priority, conds) ==
    [kind |-> "dict", id |-> id, text |-> text, priority |-> PyInt(priority),
     conditions |-> [t |-> "dict", items |-> conds]]

\* SUGGESTIONS["valorant"]
VALORANT ==
  <<
    Rule("combat_utility", "Use utility to gain advantage in combat", 1,
         << Cond("combat", PyBool(TRUE)), Cond("utility_available", PyBool(TRUE)), Cond("close_range", PyBool(TRUE)) >>),
    Rule("exposed_warning", "You are exposed! Find cover quickly", 2,
         << Cond("exposed", PyBool(TRUE)) >>),
    Rule("save_money", "Consider saving money for next round", 3,
         << Cond("team_money", PyStr("low")), Cond("round_time", PyStr("late")) >>),
    Rule("use_ultimate", "Use your ultimate ability to gain an advantage", 1,
         << Cond("ultimate_available", PyBool(TRUE)), Cond("combat", PyBool(TRUE)) >>),
    Rule("rotate_site", "Rotate to another site to surprise the enemy", 2,
         << Cond("site_control", PyBool(FALSE)), Cond("enemy_presence", PyBool(TRUE)) >>),
    Rule("plant_spike", "Plant the spike to secure the round", 1,
         << Cond("site_control", PyBool(TRUE)), Cond("spike_available", PyBool(TRUE)), Cond("safe_to_plant", PyBool(TRUE)) >>),
    Rule("defend_spike", "Defend the spike to win the round", 1,
         << Cond("spike_planted", PyBool(TRUE)), Cond("enemy_presence", PyBool(TRUE)) >>),
    Rule("request_smoke", "Request a smoke from a teammate to block vision", 2,
         << Cond("need_smoke", PyBool(TRUE)), Cond("teammate_with_smoke", PyBool(TRUE)) >>),
    Rule("request_flash", "Request a flash from a teammate to blind the enemy", 2,
         << Cond("need_flash", PyBool(TRUE)), Cond("teammate_with_flash", PyBool(TRUE)) >>),
    Rule("request_healing", "Request healing from a teammate to stay alive", 1,
         << Cond("low_health", PyBool(TRUE)), Cond("teammate_with_healing", PyBool(TRUE)) >>),
    Rule("check_corners", "Check your corners before entering a new area", 3,
         << Cond("entering_new_area", PyBool(TRUE)) >>),
    Rule("communicate_team", "Communicate with your team to coordinate attacks and defenses", 2,
         << Cond("need_coordination", PyBool(TRUE)) >>),
    Rule("use_ability_q", "Use your Q ability for tactical advantage", 1,
         << Cond("abilities", PyDict(Put(NoSub, "Q", PyBool(TRUE)))), Cond("combat", PyBool(TRUE)) >>),
    Rule("use_ability_e", "Use your E ability to reposition or gather info", 2,
         << Cond("abilities", PyDict(Put(NoSub, "E", PyBool(TRUE)))), Cond("combat", PyBool(TRUE)) >>),
    Rule("switch_to_rifle", "Switch to a rifle for better firepower", 2,
         << Cond("equipped_gun", PyStr("Classic")), Cond("combat", PyBool(TRUE)) >>),
    Rule("default_tip", "Play smart and communicate with your team!", 99,
         <<  >>)
  >>

\* Mutant of CSGO: the second rule was pasted from the first and kept its id.
CsgoPastedId ==
  <<
    Rule("combat_utility", "Use utility to gain advantage in combat", 1,
         << Cond("combat", PyBool(TRUE)), Cond("utility_available", PyBool(TRUE)) >>),
    Rule("combat_utility", "Consider saving money for next round", 2,
         << Cond("team_money", PyStr("low")), Cond("round_time", PyStr("late")) >>)
  >>

\* SUGGESTIONS["csgo"]
CSGO ==
  <<
    Rule("combat_utility", "Use utility to gain advantage in combat", 1,
         << Cond("combat", PyBool(TRUE)), Cond("utility_available", PyBool(TRUE)) >>),
    Rule("save_money", "Consider saving money for next round", 2,
         << Cond("team_money", PyStr("low")), Cond("round_time", PyStr("late")) >>)
  >>

\* Mutant of DOTA2: the list ends with a catch-all rule, as valorant's does.
Dota2WithCatchAll ==
  <<
    Rule("team_fight", "Team fight opportunity! Group up with allies", 1,
         << Cond("team_alive", PyInt(4)), Cond("combat", PyBool(TRUE)) >>),
    Rule("farm_gold", "Focus on farming to increase gold", 2,
         << Cond("gold", PyStr("low")), Cond("combat", PyBool(FALSE)) >>),
    Rule("default_tip", "Play smart and communicate with your team!", 99,
         <<  >>)
  >>

\* SUGGESTIONS["dota2"]
DOTA2 ==
  <<
    Rule("team_fight", "Team fight opportunity! Group up with allies", 1,
         << Cond("team_alive", PyInt(4)), Cond("combat", PyBool(TRUE)) >>),
    Rule("farm_gold", "Focus on farming to increase gold", 2,
         << Cond("gold", PyStr("low")), Cond("combat", PyBool(FALSE)) >>)
  >>


\* SUGGESTIONS
SUGGESTIONS == [g \in {"valorant", "csgo", "dota2"} |->
    CASE g = "valorant" -> VALORANT
      [] g = "csgo" -> CSGO
      [] g = "dota2" -> DOTA2]


---------------------------------------------------------------------------
(* States.  A state is [t, f]: t is "dict" for a mapping, whose fields are *)
(* the function f; "none" and "list" are the states                        *)
(* None and [] a caller may pass instead of a mapping.                     *)

\* Mutant of Abilities: E is never available.
AbilitiesWithoutE(q, e) ==
    PyDict(Put(Put(Put(Put(NoSub, "Q", q), "E", PyBool(FALSE)), "C", PyBool(FALSE)),
               "X", PyBool(FALSE)))

\* the dict _detect_abilities builds, with Q and E as given
Abilities(q, e) ==
    PyDict(Put(Put(Put(Put(NoSub, "Q", q), "E", e), "C", PyBool(FALSE)), "X", PyBool(FALSE)))

\* the dict {"Q": q, "E": e}
QE(q, e) == PyDict(Put(Put(NoSub, "Q", q), "E", e))

\* the values a field of a state of Spec and SpecFault takes
ValuesFor(k) ==
    CASE k = "combat" -> {Lift(PyBool(TRUE)), Lift(PyBool(FALSE)), Lift(PyInt(1))}
      [] k = "exposed" -> {Lift(PyBool(TRUE)), Lift(PyBool(FALSE))}
      [] k = "site_control" -> {Lift(PyBool(TRUE)), Lift(PyBool(FALSE))}
      [] k = "team_money" -> {Lift(PyStr("low")), Lift(PyStr("medium"))}
      [] k = "round_time" -> {Lift(PyStr("late")), Lift(PyStr("mid"))}
      [] k = "gold" -> {Lift(PyStr("low"))}
      [] k = "equipped_gun" -> {Lift(PyStr("Classic")), Lift(PyStr("Vandal"))}
      [] k = "team_alive" -> {Lift(PyInt(4))}
      [] k = "player_health" -> {Lift(PyInt(100))}
      [] k = "abilities" ->
            {Abilities(PyBool(TRUE), PyBool(TRUE)), QE(PyBool(TRUE), PyBool(FALSE)),
             QE(PyBool(FALSE), PyBool(TRUE)), Lift(PyBool(TRUE))}
      [] OTHER -> {Lift(PyBool(TRUE))}

\* the values a field of a state of SpecCond takes
CondStateValues(k) ==
    CASE k = "combat" ->
            {Lift(PyBool(TRUE)), Lift(PyBool(FALSE)), Lift(PyInt(1)), Lift(PyStr("low")),
             Lift(PyNone), PyDict(NoSub)}
      [] k = "abilities" ->
            {Abilities(PyBool(TRUE), PyBool(TRUE)), QE(PyBool(TRUE), PyBool(FALSE)),
             QE(PyBool(FALSE), PyBool(TRUE)), PyDict(Put(NoSub, "E", PyBool(TRUE))),
             PyDict(NoSub), Lift(PyBool(TRUE))}
      [] OTHER -> {Lift(PyInt(100))}

EmptyState == [t |-> "dict", f |-> [k \in {} |-> Lift(Absent)]]
NonMappingStates == {[t |-> "none", f |-> EmptyState.f], [t |-> "list", f |-> EmptyState.f]}

\* the keys in the order in which a state under construction receives them
KeySeq ==
    << "combat", "utility_available", "close_range", "exposed", "team_money",
       "round_time", "ultimate_available", "site_control", "enemy_presence",
       "spike_available", "safe_to_plant", "spike_planted", "need_smoke",
       "teammate_with_smoke", "need_flash", "teammate_with_flash", "low_health",
       "teammate_with_healing", "entering_new_area", "need_coordination",
       "abilities", "equipped_gun", "team_alive", "gold", "player_health" >>

---------------------------------------------------------------------------
(* AISuggestionPipeline._check_conditions                                  *)

\* the program constant of the slice [:3]
TopK == 3

\* Mutant of CondStep: a key the state lacks is skipped (continue) and not
\* a reason to return False.
CondStepSkipMissing(key, value, st) ==
    IF st.t = "none" THEN "raise"
    ELSE IF st.t = "list" THEN "false"
    ELSE IF key \notin DOMAIN st.f THEN "next"
    ELSE IF value.t = "dict" /\ st.f[key].t = "dict"
         THEN IF \E subkey \in DOMAIN value.d :
                    \/ subkey \notin DOMAIN st.f[key].d
                    \/ ~PyEqScalar(st.f[key].d[subkey], value.d[subkey])
              THEN "false"
              ELSE "next"
    ELSE IF ~PyEq(st.f[key], value) THEN "false"
    ELSE "next"

\* Mutant of CondStep: no special handling of nested dicts, every value is
\* compared with !=.
CondStepExactDict(key, value, st) ==
    IF st.t = "none" THEN "raise"
    ELSE IF st.t = "list" THEN "false"
    ELSE IF key \notin DOMAIN st.f THEN "false"
    ELSE IF ~PyEq(st.f[key], value) THEN "false"
    ELSE "next"

\* Mutant of CondStep: the test of state[key] is nested in the test of
\* value (if isinstance(value, dict): if isinstance(state[key], dict): ...
\* elif state[key] != value), so an expected dict against a scalar falls
\* through.
CondStepNestedIf(key, value, st) ==
    IF st.t = "none" THEN "raise"
    ELSE IF st.t = "list" THEN "false"
    ELSE IF key \notin DOMAIN st.f THEN "false"
    ELSE IF value.t = "dict"
         THEN IF /\ st.f[key].t = "dict"
                 /\ \E subkey \in DOMAIN value.d :
                        \/ subkey \notin DOMAIN st.f[key].d
                        \/ ~PyEqScalar(st.f[key].d[subkey], value.d[subkey])
              THEN "false"
              ELSE "next"
    ELSE IF ~PyEq(st.f[key], value) THEN "false"
    ELSE "next"

\* one pass of the loop over conditions.items(): "next" to go on, "false"
\* for return False, "raise" for an exception
CondStep(key, value, st) ==
    IF st.t = "none" THEN "raise"
    ELSE IF st.t = "list" THEN "false"
    ELSE IF key \notin DOMAIN st.f THEN "false"
    ELSE IF value.t = "dict" /\ st.f[key].t = "dict"
         THEN IF \E subkey \in DOMAIN value.d :
                    \/ subkey \notin DOMAIN st.f[key].d
                    \/ ~PyEqScalar(st.f[key].d[subkey], value.d[subkey])
              THEN "false"
              ELSE "next"
    ELSE IF ~PyEq(st.f[key], value) THEN "false"
    ELSE "next"

\* the loop, from item i on: "true" when every item went on
RECURSIVE CondLoop(_, _, _)
CondLoop(items, i, st) ==
    IF i > Len(items) THEN "true"
    ELSE LET r == CondStep(items[i].key, items[i].value, st)
         IN  IF r = "next" THEN CondLoop(items, i + 1, st) ELSE r

\* Mutant of CheckBody: a falsy state (if not state: return False) matches
\* nothing.
CheckBodyRejectsFalsyState(suggestion, st) ==
    IF st.t # "dict" \/ DOMAIN st.f = {} THEN "false"
    ELSE IF suggestion.kind # "dict" THEN "raise"
    ELSE LET conditions == IF suggestion.conditions.t = "absent"
                           THEN [t |-> "dict", items |-> << >>]
                           ELSE suggestion.conditions
         IN  IF conditions.t # "dict" THEN "raise"
             ELSE CondLoop(conditions.items, 1, st)

\* Mutant of CheckBody: a state that holds a key the conditions do not name
\* is rejected.
CheckBodyOnlyNamedKeys(suggestion, st) ==
    IF suggestion.kind # "dict" THEN "raise"
    ELSE LET conditions == IF suggestion.conditions.t = "absent"
                           THEN [t |-> "dict", items |-> << >>]
                           ELSE suggestion.conditions
         IN  IF conditions.t # "dict" THEN "raise"
             ELSE IF st.t = "dict" /\
                     \E k \in DOMAIN st.f :
                        \A j \in 1..Len(conditions.items) : conditions.items[j].key # k
                  THEN "false"
                  ELSE CondLoop(conditions.items, 1, st)

\* the body of the try block
CheckBody(suggestion, st) ==
    IF suggestion.kind # "dict" THEN "raise"
    ELSE LET conditions == IF suggestion.conditions.t = "absent"
                           THEN [t |-> "dict", items |-> << >>]
                           ELSE suggestion.conditions
         IN  IF conditions.t # "dict" THEN "raise"
             ELSE CondLoop(conditions.items, 1, st)

\* _check_conditions: an exception of the body is caught and gives False
check_conditions(suggestion, st) == CheckBody(suggestion, st) = "true"

---------------------------------------------------------------------------
(* AISuggestionPipeline.get_suggestions                                    *)

\* Mutant of FilterLoop: the test of the conditions is left out, every rule
\* of the domain is kept.
FilterLoopKeepAll(game_suggestions, i, acc, st) ==
    [p \in 1..Len(game_suggestions) |-> p]

\* the filter loop: active_suggestions after the rules from i on
RECURSIVE FilterLoop(_, _, _, _)
FilterLoop(game_suggestions, i, acc, st) ==
    IF i > Len(game_suggestions) THEN acc
    ELSE FilterLoop(game_suggestions, i + 1,
                    IF check_conditions(game_suggestions[i], st)
                    THEN Append(acc, i) ELSE acc,
                    st)

\* Mutant of InsertByPriority: x goes before the entries of equal priority
\* (the comparison <= in place of <), which makes the sort unstable.
RECURSIVE InsertBeforeEqual(_, _, _)
InsertBeforeEqual(game_suggestions, sorted, x) ==
    IF Len(sorted) = 0 THEN << x >>
    ELSE LET last == sorted[Len(sorted)]
         IN  IF game_suggestions[x].priority.n <= game_suggestions[last].priority.n
             THEN Append(InsertBeforeEqual(game_suggestions,
                                           SubSeq(sorted, 1, Len(sorted) - 1), x), last)
             ELSE Append(sorted, x)

\* x put into a list sorted by priority, after the entries that are not
\* greater
RECURSIVE InsertByPriority(_, _, _)
InsertByPriority(game_suggestions, sorted, x) ==
    IF Len(sorted) = 0 THEN << x >>
    ELSE LET last == sorted[Len(sorted)]
         IN  IF game_suggestions[x].priority.n < game_suggestions[last].priority.n
             THEN Append(InsertByPriority(game_suggestions,
                                          SubSeq(sorted, 1, Len(sorted) - 1), x), last)
             ELSE Append(sorted, x)

RECURSIVE SortFrom(_, _, _, _)
SortFrom(game_suggestions, xs, i, sorted) ==
    IF i > Len(xs) THEN sorted
    ELSE SortFrom(game_suggestions, xs, i + 1,
                  InsertByPriority(game_suggestions, sorted, xs[i]))

\* list.sort(key=lambda x: x['priority']): stable, ascending
SortByPriority(game_suggestions, xs) == SortFrom(game_suggestions, xs, 1, << >>)

\* Mutant of Top3: the slice is forgotten.
TopAll(xs) == xs

\* active_suggestions[:3]
Top3(xs) == SubSeq(xs, 1, IF Len(xs) < TopK THEN Len(xs) ELSE TopK)

\* the characters of the domain names that are used
Spelling(name) ==
    CASE name = "valorant" -> << "v", "a", "l", "o", "r", "a", "n", "t" >>
      [] name = "Valorant" -> << "V", "a", "l", "o", "r", "a", "n", "t" >>
      [] name = "csgo" -> << "c", "s", "g", "o" >>
      [] name = "dota2" -> << "d", "o", "t", "a", "2" >>
      [] name = "unknown_game" ->
            << "u", "n", "k", "n", "o", "w", "n", "_", "g", "a", "m", "e" >>

\* str.lower() of one character
LowerChar(c) == IF c = "V" THEN "v" ELSE c

\* the names a call or a detector is given
Names == {"valorant", "csgo", "dota2", "unknown_game", "Valorant"}

\* str.lower(): every character lower-cased
Lower(name) ==
    CHOOSE n \in Names :
        Spelling(n) = [i \in 1..Len(Spelling(name)) |-> LowerChar(Spelling(name)[i])]

\* the keys of GAME_CONFIGS
GAME_CONFIGS == {"valorant", "csgo", "dota2"}

\* GameStateDetector.__init__(game_name): the name is lower-cased and
\* looked up; FALSE iff ValueError is raised
DetectorAccepts(game_name) == Lower(game_name) \in GAME_CONFIGS

\* Mutant of GetBody: the domain name is lower-cased before the lookup, as
\* GameStateDetector does.
GetBodyLowerCase(sugg, st, g) ==
    LET game_suggestions == IF Lower(g) \in DOMAIN sugg THEN sugg[Lower(g)] ELSE << >>
        active_suggestions == FilterLoop(game_suggestions, 1, << >>, st)
    IN  IF \E p \in 1..Len(active_suggestions) :
              game_suggestions[active_suggestions[p]].priority.t = "absent"
        THEN [exc |-> TRUE, active |-> active_suggestions, val |-> << >>]
        ELSE [exc |-> FALSE, active |-> active_suggestions,
              val |-> Top3(SortByPriority(game_suggestions, active_suggestions))]

\* Mutant of GetBody: the list is cut to 3 entries before it is sorted.
GetBodyCutBeforeSort(sugg, st, g) ==
    LET game_suggestions == IF g \in DOMAIN sugg THEN sugg[g] ELSE << >>
        active_suggestions == FilterLoop(game_suggestions, 1, << >>, st)
    IN  IF \E p \in 1..Len(active_suggestions) :
              game_suggestions[active_suggestions[p]].priority.t = "absent"
        THEN [exc |-> TRUE, active |-> active_suggestions, val |-> << >>]
        ELSE [exc |-> FALSE, active |-> active_suggestions,
              val |-> SortByPriority(game_suggestions, Top3(active_suggestions))]

\* Mutant of GetBody: a domain without an entry falls back to the valorant
\* rules (self.suggestions.get(game, self.suggestions['valorant'])).
GetBodyDefaultValorant(sugg, st, g) ==
    LET game_suggestions == IF g \in DOMAIN sugg THEN sugg[g] ELSE sugg["valorant"]
        active_suggestions == FilterLoop(game_suggestions, 1, << >>, st)
    IN  IF \E p \in 1..Len(active_suggestions) :
              game_suggestions[active_suggestions[p]].priority.t = "absent"
        THEN [exc |-> TRUE, active |-> active_suggestions, val |-> << >>]
        ELSE [exc |-> FALSE, active |-> active_suggestions,
              val |-> Top3(SortByPriority(game_suggestions, active_suggestions))]

\* Mutant of GetBody: a falsy state (if not state: return []) gets no
\* suggestions.
GetBodyNothingForEmptyState(sugg, st, g) ==
    LET game_suggestions == IF g \in DOMAIN sugg THEN sugg[g] ELSE << >>
        active_suggestions ==
            IF st.t # "dict" \/ DOMAIN st.f = {} THEN << >>
            ELSE FilterLoop(game_suggestions, 1, << >>, st)
    IN  IF \E p \in 1..Len(active_suggestions) :
              game_suggestions[active_suggestions[p]].priority.t = "absent"
        THEN [exc |-> TRUE, active |-> active_suggestions, val |-> << >>]
        ELSE [exc |-> FALSE, active |-> active_suggestions,
              val |-> Top3(SortByPriority(game_suggestions, active_suggestions))]

\* the body of the try block: exc iff it raises (the key function of the
\* sort raises KeyError on an entry without 'priority')
GetBody(sugg, st, g) ==
    LET game_suggestions == IF g \in DOMAIN sugg THEN sugg[g] ELSE << >>
        active_suggestions == FilterLoop(game_suggestions, 1, << >>, st)
    IN  IF \E p \in 1..Len(active_suggestions) :
              game_suggestions[active_suggestions[p]].priority.t = "absent"
        THEN [exc |-> TRUE, active |-> active_suggestions, val |-> << >>]
        ELSE [exc |-> FALSE, active |-> active_suggestions,
              val |-> Top3(SortByPriority(game_suggestions, active_suggestions))]

\* Mutant of get_suggestions: no try/except around the body.
get_suggestions_uncaught(sugg, st, g) == GetBody(sugg, st, g)

\* get_suggestions: an exception of the body is caught and gives []
get_suggestions(sugg, st, g) ==
    LET b == GetBody(sugg, st, g)
    IN  IF b.exc THEN [exc |-> FALSE, active |-> b.active, val |-> << >>] ELSE b

---------------------------------------------------------------------------
(* The tables a pipeline is checked with: the shipped one, the shipped one *)
(* with one malformed rule, and tables of one generated rule.              *)

FaultKinds == {"not_record", "conditions_not_mapping", "no_priority", "no_conditions"}

\* a rule made malformed: a string in place of the dict, a list in place
\* of the conditions dict, no 'priority' key, no 'conditions' key
Break(rule, kind) ==
    CASE kind = "not_record" ->
            [kind |-> "str", id |-> "", text |-> "", priority |-> Absent,
             conditions |-> [t |-> "absent", items |-> << >>]]
      [] kind = "conditions_not_mapping" ->
            [rule EXCEPT !.conditions = [t |-> "list", items |-> << >>]]
      [] kind = "no_priority" -> [rule EXCEPT !.priority = Absent]
      [] kind = "no_conditions" ->
            [rule EXCEPT !.conditions = [t |-> "absent", items |-> << >>]]

\* the table cat with rule i of domain g malformed
Corrupt(cat, g, i, kind) == [cat EXCEPT ![g][i] = Break(cat[g][i], kind)]

CondKeys == {"combat", "abilities"}

\* the expected values of a generated condition
CondValues ==
    {Lift(PyBool(TRUE)), Lift(PyBool(FALSE)), Lift(PyStr("low")),
     PyDict(NoSub), PyDict(Put(NoSub, "Q", PyBool(TRUE))),
     QE(PyBool(TRUE), PyBool(TRUE))}

\* the conditions dicts of at most n items over CondKeys, in every
\* insertion order
RECURSIVE CondSeqs(_)
CondSeqs(n) ==
    IF n = 0 THEN {<< >>}
    ELSE LET P == CondSeqs(n - 1)
         IN  P \cup UNION { { Append(cs, Cond(k, v)) :
                                k \in CondKeys \ {cs[j].key : j \in 1..Len(cs)},
                                v \in CondValues }
                            : cs \in P }

\* a table of one rule, with the given conditions
GeneratedTable(conds) ==
    [g \in {"valorant"} |-> << Rule("generated", "generated rule", 1, conds) >>]

\* the values of the variable loaded
Shipped == [base |-> "shipped", g |-> "", i |-> 0, fault |-> "none", conds |-> << >>]
Faulty(g, i, kind) == [base |-> "shipped", g |-> g, i |-> i, fault |-> kind, conds |-> << >>]
Generated(conds) == [base |-> "generated", g |-> "", i |-> 0, fault |-> "none", conds |-> conds]

\* AISuggestionPipeline.suggestions: domain -> list of rules
suggestions ==
    IF loaded.base = "generated" THEN GeneratedTable(loaded.conds)
    ELSE IF loaded.fault = "none" THEN SUGGESTIONS
    ELSE Corrupt(SUGGESTIONS, loaded.g, loaded.i, loaded.fault)

---------------------------------------------------------------------------
(* The calls.                                                              *)

\* the names the calls are made with
Games == Names

\* the variables of the concurrent calls, while no thread is modelled
ThreadsParked ==
    /\ lists = << >>
    /\ rules = << >>
    /\ th = << >>
    /\ done = << >>
    /\ started = 0

\* the variables of the update loop, while no loop is modelled
LoopParked ==
    /\ labels = << >>
    /\ handed = << >>
    /\ ticks = 0
    /\ session = << >>
    /\ captured = FALSE
    /\ faulted = FALSE
    /\ threw = FALSE
    /\ ml_out = << >>
    /\ vision_out = "not_called"
    /\ refreshed = 0
    /\ asked = 0
    /\ session_start = 0
    /\ files = << >>
    /\ now = 0

Start(table, st) ==
    /\ ThreadsParked
    /\ LoopParked
    /\ loaded = table
    /\ state = st
    /\ game = ""
    /\ active = << >>
    /\ result = << >>
    /\ raised = FALSE
    /\ pc = "build"

\* the caller builds the state: one more field, in the order of KeySeq, up
\* to max fields
AddField(i, v, max) ==
    /\ pc = "build"
    /\ state.t = "dict"
    /\ Cardinality(DOMAIN state.f) < max
    /\ \A j \in i..Len(KeySeq) : KeySeq[j] \notin DOMAIN state.f
    /\ state' = [state EXCEPT !.f = Put(state.f, KeySeq[i], v)]
    /\ UNCHANGED << loaded, game, active, result, raised, pc >>
    /\ UNCHANGED tvars
    /\ UNCHANGED lvars

\* one call get_suggestions(state, g)
Call(g) ==
    /\ pc = "build"
    /\ LET r == get_suggestions(suggestions, state, g)
       IN  /\ active' = r.active
           /\ result' = r.val
           /\ raised' = r.exc
    /\ game' = g
    /\ pc' = "returned"
    /\ UNCHANGED << loaded, state >>
    /\ UNCHANGED tvars
    /\ UNCHANGED lvars

\* the shipped table; the state starts as {}, None or []
Init == \E st \in {EmptyState} \cup NonMappingStates : Start(Shipped, st)

Next ==
    \/ \E i \in 1..Len(KeySeq) : \E v \in ValuesFor(KeySeq[i]) : AddField(i, v, MaxFields)
    \/ \E g \in Games : Call(g)

Spec == Init /\ [][Next]_vars

\* the shipped table, or the shipped table with one malformed rule
InitFault ==
    \E st \in {EmptyState} \cup NonMappingStates :
        \/ Start(Shipped, st)
        \/ \E g \in DOMAIN SUGGESTIONS : \E i \in 1..Len(SUGGESTIONS[g]) :
              \E kind \in FaultKinds : Start(Faulty(g, i, kind), st)

NextFault ==
    \/ \E i \in 1..Len(KeySeq) : \E v \in ValuesFor(KeySeq[i]) : AddField(i, v, MaxFaultFields)
    \/ \E g \in Games : Call(g)

SpecFault == InitFault /\ [][NextFault]_vars

\* the fields a state of SpecCond may hold
CondFields == {i \in 1..Len(KeySeq) : KeySeq[i] \in CondKeys \cup {"player_health"}}

\* a table of one generated rule
InitCond ==
    \E st \in {EmptyState} \cup NonMappingStates :
        \E conds \in CondSeqs(MaxConds) : Start(Generated(conds), st)

NextCond ==
    \/ \E i \in CondFields : \E v \in CondStateValues(KeySeq[i]) : AddField(i, v, MaxFields)
    \/ \E g \in Games : Call(g)

SpecCond == InitCond /\ [][NextCond]_vars

---------------------------------------------------------------------------
(* Properties.  They are stated over what the call was given (the table,   *)
(* state, game) and what it left (active, result, raised), with the        *)
(* matching of a rule restated as a predicate and not as a loop.           *)

Returned == pc = "returned"

\* the rules of the domain the call was made for
CatalogOfGame == IF game \in DOMAIN suggestions THEN suggestions[game] ELSE << >>

\* one condition holds of a mapping st: the key is there, and the value is
\* equal (==) or, dict against dict, every listed sub-key is there and equal
CondHolds(c, st) ==
    /\ st.t = "dict"
    /\ c.key \in DOMAIN st.f
    /\ LET actual == st.f[c.key]
       IN  IF c.value.t = "dict" /\ actual.t = "dict"
           THEN \A sk \in DOMAIN c.value.d :
                    sk \in DOMAIN actual.d /\ PyEqScalar(actual.d[sk], c.value.d[sk])
           ELSE PyEq(actual, c.value)

\* the state satisfies every condition of a well-formed rule
Satisfies(rule, st) ==
    \A j \in 1..Len(rule.conditions.items) : CondHolds(rule.conditions.items[j], st)

\* the positions in the domain's sequence of the rules the state satisfies
Matching == {i \in 1..Len(CatalogOfGame) : Satisfies(CatalogOfGame[i], state)}

\* rule i comes before rule j when sorted by priority, ties in catalog order
Before(i, j) ==
    \/ CatalogOfGame[i].priority.n < CatalogOfGame[j].priority.n
    \/ CatalogOfGame[i].priority.n = CatalogOfGame[j].priority.n /\ i < j

\* the place of rule i of M in that order
RankIn(M, i) == Cardinality({j \in M : Before(j, i)}) + 1
Rank(i) == RankIn(Matching, i)

\* the keys a state holds
StateKeys == IF state.t = "dict" THEN DOMAIN state.f ELSE {}

\* the conditions of rule i of the domain
ItemsOf(i) == CatalogOfGame[i].conditions.items

\* the priority of the rule at position p of the result
ResultPriority(p) == CatalogOfGame[result[p]].priority.n

InResult(i) == \E p \in 1..Len(result) : result[p] = i
InActive(i) == \E p \in 1..Len(active) : active[p] = i

\* C1: the result is exactly the first 3 (all, when fewer) of the matching
\* rules of the domain in priority order, ties in catalog order: the rule
\* of rank n <= 3 is result[n], nothing else is returned, nothing twice.
C1_ResultIsTop3OfSortedMatches ==
    Returned =>
        /\ Len(result) = IF Cardinality(Matching) < 3 THEN Cardinality(Matching) ELSE 3
        /\ \A i \in Matching : Rank(i) <= 3 => result[Rank(i)] = i
        /\ \A p \in 1..Len(result) : result[p] \in Matching
        /\ \A p, q \in 1..Len(result) : p # q => result[p] # result[q]

\* C1 witness: more than 3 rules match and the result is truncated by
\* priority, not by catalog order: a matching rule is left out although a
\* rule that follows it in the catalog is returned.
C1_Witness ==
    /\ Returned
    /\ Cardinality(Matching) > 3
    /\ Len(result) = 3
    /\ \E i \in Matching : ~InResult(i) /\ \E p \in 1..Len(result) : result[p] > i

\* C2: the returned sequence has at most 3 entries, for every state and
\* every domain, known or not.
C2_AtMost3 == Returned => Len(result) <= 3

\* C2 witness: the filter kept more than 3 rules and 3 were returned.
C2_Witness == Returned /\ Len(active) > 3 /\ Len(result) = 3

\* C3: the returned sequence is sorted by ascending priority and entries of
\* equal priority are in catalog order.
C3_SortedStable ==
    Returned =>
        \A p, q \in 1..Len(result) :
            p < q =>
                /\ ResultPriority(p) <= ResultPriority(q)
                /\ ResultPriority(p) = ResultPriority(q) => result[p] < result[q]

\* C3 witness: two returned entries have equal priority, and another pair
\* was reordered by the sort.
C3_Witness ==
    /\ Returned
    /\ \E p, q \in 1..Len(result) : p < q /\ ResultPriority(p) = ResultPriority(q)
    /\ \E p, q \in 1..Len(result) : p < q /\ result[p] > result[q]

\* a rule requires combat == True
RequiresCombatTrue(i) ==
    \E j \in 1..Len(ItemsOf(i)) :
        ItemsOf(i)[j].key = "combat" /\ ItemsOf(i)[j].value = Lift(PyBool(TRUE))

\* C4 (as claimed; the code violates it): equality is type-sensitive: every
\* scalar condition of a returned rule is met by a state value of the same
\* type and value, so for a state with combat = 1 (an int) no rule that
\* requires combat == True is returned.
C4_TypeSensitiveEquality ==
    (Returned /\ state.t = "dict") =>
        /\ \A p \in 1..Len(result) : \A j \in 1..Len(ItemsOf(result[p])) :
              LET c == ItemsOf(result[p])[j]
              IN  (c.value.t # "dict" /\ c.key \in DOMAIN state.f)
                      => state.f[c.key] = c.value
        /\ ("combat" \in DOMAIN state.f /\ state.f["combat"] = Lift(PyInt(1)))
              => \A p \in 1..Len(result) : ~RequiresCombatTrue(result[p])

\* a rule that is a dict with a conditions dict and a priority
WellFormed(rule) ==
    rule.kind = "dict" /\ rule.conditions.t = "dict" /\ rule.priority.t # "absent"

\* the well-formed rules of the domain that the state satisfies
MatchingWellFormed ==
    {i \in 1..Len(CatalogOfGame) :
        WellFormed(CatalogOfGame[i]) /\ Satisfies(CatalogOfGame[i], state)}

\* C5 (as claimed; the code violates it): when one rule of the table is not
\* a dict, has conditions that are not a dict, or has no priority, only that
\* rule is left out: the result is the first 3 of the well-formed matching
\* rules in priority order.
C5_MalformedRuleOnlySkipped ==
    (Returned /\ loaded.fault \in {"not_record", "conditions_not_mapping", "no_priority"}) =>
        /\ Len(result) = IF Cardinality(MatchingWellFormed) < 3
                         THEN Cardinality(MatchingWellFormed) ELSE 3
        /\ \A i \in MatchingWellFormed :
              RankIn(MatchingWellFormed, i) <= 3
                  => result[RankIn(MatchingWellFormed, i)] = i

\* the part of C5 the code keeps: a rule that is not a dict or whose
\* conditions are not a dict is left out and the others are ranked
C5_HoldsWithoutMissingPriority ==
    (Returned /\ loaded.fault \in {"not_record", "conditions_not_mapping"}) =>
        /\ Len(result) = IF Cardinality(MatchingWellFormed) < 3
                         THEN Cardinality(MatchingWellFormed) ELSE 3
        /\ \A i \in MatchingWellFormed :
              RankIn(MatchingWellFormed, i) <= 3
                  => result[RankIn(MatchingWellFormed, i)] = i

\* a rule the filter kept has no priority, so the sort raises
SortRaises ==
    \E p \in 1..Len(active) : CatalogOfGame[active[p]].priority.t = "absent"

\* C6: the call never raises to its caller, whatever the state (a mapping,
\* None, []), the domain and the table (a malformed rule included), and a
\* fault of the whole pass gives the empty list.
C6_NeverRaises ==
    Returned => /\ ~raised
                /\ SortRaises => result = << >>

\* C6 witness: the sort raised over a list of several kept rules and the
\* call returned [] without raising.
C6_Witness ==
    Returned /\ SortRaises /\ Len(active) > 1 /\ result = << >> /\ ~raised

\* C7: a rule with a condition key that the state does not hold does not
\* match (it is neither kept by the filter nor returned), whatever its
\* other conditions and the other keys of the state.
C7_AbsentKeyNeverMatches ==
    Returned =>
        \A i \in 1..Len(CatalogOfGame) :
            (\E j \in 1..Len(ItemsOf(i)) : ItemsOf(i)[j].key \notin StateKeys)
                => ~InActive(i) /\ ~InResult(i)

\* C7 witness: the state meets one condition of a rule and lacks the key of
\* another, holds a key the rule does not name, and the rule is not kept
\* while other rules are returned.
C7_Witness ==
    /\ Returned
    /\ \E i \in 1..Len(CatalogOfGame) :
          /\ \E j \in 1..Len(ItemsOf(i)) : CondHolds(ItemsOf(i)[j], state)
          /\ \E j \in 1..Len(ItemsOf(i)) : ItemsOf(i)[j].key \notin StateKeys
          /\ \E k \in StateKeys : \A j \in 1..Len(ItemsOf(i)) : ItemsOf(i)[j].key # k
          /\ ~InActive(i)
    /\ Len(result) > 0

\* every sub-key the expectation lists is in the actual dict, with an equal
\* value
SubkeysMatch(expected, actual) ==
    \A sk \in DOMAIN expected.d :
        sk \in DOMAIN actual.d /\ PyEqScalar(actual.d[sk], expected.d[sk])

\* the conditions {"abilities": {"Q": True}}
OnlyAbilityQ == << Cond("abilities", PyDict(Put(NoSub, "Q", PyBool(TRUE)))) >>

\* C8: for the one rule of a generated table, a condition whose expected
\* value and state value are both dicts holds iff every listed sub-key is in
\* the state's dict with an equal value (the rule is kept iff so, the other
\* conditions holding); {"abilities": {"Q": True}} does not match
\* {"abilities": {"Q": False, "E": True}} and matches
\* {"abilities": {"Q": True, "E": False}}.
C8_NestedAllSubkeys ==
    (Returned /\ game = "valorant" /\ state.t = "dict") =>
        /\ \A j \in 1..Len(ItemsOf(1)) :
              LET c == ItemsOf(1)[j]
              IN  (c.value.t = "dict" /\ c.key \in DOMAIN state.f /\ state.f[c.key].t = "dict")
                      => (InActive(1) <=>
                            /\ SubkeysMatch(c.value, state.f[c.key])
                            /\ \A k \in 1..Len(ItemsOf(1)) :
                                  k # j => CondHolds(ItemsOf(1)[k], state))
        /\ (ItemsOf(1) = OnlyAbilityQ /\ "abilities" \in DOMAIN state.f) =>
              /\ state.f["abilities"] = QE(PyBool(FALSE), PyBool(TRUE)) => result = << >>
              /\ state.f["abilities"] = QE(PyBool(TRUE), PyBool(FALSE)) => result = << 1 >>

\* C8 witness: {"abilities": {"Q": True}} against a state whose abilities
\* are {"Q": True, "E": False}: the rule is returned.
C8_Witness ==
    /\ Returned
    /\ game = "valorant"
    /\ state.t = "dict"
    /\ ItemsOf(1) = OnlyAbilityQ
    /\ "abilities" \in DOMAIN state.f
    /\ state.f["abilities"] = QE(PyBool(TRUE), PyBool(FALSE))
    /\ result = << 1 >>

\* C9: for the one rule of a generated table, a condition whose expected
\* value is a dict (even {}) while the state's value is not, or whose
\* expected value is a scalar while the state's value is a dict, makes the
\* rule not match.
C9_ShapeMismatchNeverMatches ==
    (Returned /\ game = "valorant" /\ state.t = "dict") =>
        \A j \in 1..Len(ItemsOf(1)) :
            LET c == ItemsOf(1)[j]
            IN  (/\ c.key \in DOMAIN state.f
                 /\ (c.value.t = "dict") # (state.f[c.key].t = "dict"))
                    => ~InActive(1) /\ result = << >>

\* C9 witness: the expected value is the empty dict, the state's value is
\* True, and nothing is returned.
C9_Witness ==
    /\ Returned
    /\ game = "valorant"
    /\ state.t = "dict"
    /\ ItemsOf(1) = << Cond("abilities", PyDict(NoSub)) >>
    /\ "abilities" \in DOMAIN state.f
    /\ state.f["abilities"] = Lift(PyBool(TRUE))
    /\ result = << >>

\* C10: a rule with empty conditions is kept by the filter for every state
\* (the empty one, one with other keys, None, []); default_tip of valorant
\* is such a rule.
C10_EmptyConditionsAlwaysMatch ==
    Returned =>
        /\ \A i \in 1..Len(CatalogOfGame) : Len(ItemsOf(i)) = 0 => InActive(i)
        /\ game = "valorant" =>
              \E i \in 1..Len(CatalogOfGame) :
                  /\ CatalogOfGame[i].id = "default_tip"
                  /\ Len(ItemsOf(i)) = 0
                  /\ InActive(i)

\* C10 witness: the state is None and default_tip alone is returned.
C10_Witness ==
    /\ Returned
    /\ game = "valorant"
    /\ state.t = "none"
    /\ Len(result) = 1
    /\ CatalogOfGame[result[1]].id = "default_tip"

---------------------------------------------------------------------------
(* Repeated and concurrent calls of get_suggestions on one pipeline.  The  *)
(* statements of lines 14-26 are single steps of a thread; the filter loop *)
(* takes one step per rule.  The table is held as Python holds it: list    *)
(* objects of references to rule dicts.                                    *)

\* the most calls started in a behaviour
MaxCalls == 3

Threads == {"t1", "t2"}

\* the states the threads call with
ThreadStates ==
    { [EmptyState EXCEPT !.f = Put(@, "exposed", Lift(PyBool(TRUE)))],
      [EmptyState EXCEPT !.f =
          Put(Put(Put(Put(@, "combat", Lift(PyBool(TRUE))),
                      "exposed", Lift(PyBool(TRUE))),
                  "abilities", Abilities(PyBool(TRUE), PyBool(TRUE))),
              "equipped_gun", Lift(PyStr("Classic")))],
      [EmptyState EXCEPT !.f =
          Put(Put(@, "team_money", Lift(PyStr("low"))), "round_time", Lift(PyStr("late")))] }

\* the domains the threads call with
ThreadGames == {"valorant", "csgo", "unknown_game"}

\* a reference to a rule dict: the domain and the place it was loaded at
Refs(table) == UNION {{<< g, i >> : i \in 1..Len(table[g])} : g \in DOMAIN table}

\* the rule dicts of the table at load time, by reference
LoadedRules(table) == [r \in Refs(table) |-> table[r[1]][r[2]]]

\* the list object that the variable suggestions of thread t's caller
\* names when the call made a list of its own
CallerList(t) == IF t = "t1" THEN "r1" ELSE "r2"

\* Mutant of ReturnedList: the call cuts the domain's own list and returns
\* that list object.
ReturnedGameList(t, g) == IF g \in DOMAIN SUGGESTIONS THEN g ELSE CallerList(t)

\* line 26: the list object a call of thread t returns; the slice makes a
\* new list
ReturnedList(t, g) == CallerList(t)

\* the list objects at load time: each domain's list of its rules in order,
\* and no list of a call yet
LoadedLists(table) ==
    [id \in DOMAIN table \cup Threads \cup {"r1", "r2"} |->
        IF id \in DOMAIN table THEN [p \in 1..Len(table[id]) |-> << id, p >>] ELSE << >>]

\* the variables of the single call, while the threads are modelled
PipelineParked ==
    /\ loaded = Shipped
    /\ state = EmptyState
    /\ game = ""
    /\ active = << >>
    /\ result = << >>
    /\ raised = FALSE
    /\ pc = "build"

\* a thread outside get_suggestions
Idle == [pc |-> "idle", st |-> EmptyState, g |-> "", i |-> 0]

\* Mutant of OwnList: active_suggestions is one list shared by all calls.
SharedList(t) == "t1"

\* the list active_suggestions of thread t's call: a local of the call
OwnList(t) == t

\* Mutant of FreshList: the list is created once and never emptied.
KeptList(old) == old

\* line 17: active_suggestions = [], whatever an earlier call left
FreshList(old) == << >>

\* Mutant of SortTarget: the sort is applied to the domain's own list.
SortTargetCatalog(t, g) == IF g \in DOMAIN SUGGESTIONS THEN g ELSE OwnList(t)

\* line 23: the list that .sort() reorders in place
SortTarget(t, g) == OwnList(t)

\* line 14: game_suggestions, the domain's list or a new empty list
GameList(g) == IF g \in DOMAIN SUGGESTIONS THEN lists[g] ELSE << >>

\* lines 14 and 17: thread t enters get_suggestions(st, g); the list its
\* caller held in the cycle before is gone
Begin(t, st, g) ==
    /\ th[t].pc = "idle"
    /\ started < MaxCalls
    /\ started' = started + 1
    /\ th' = [th EXCEPT ![t] = [pc |-> "filter", st |-> st, g |-> g, i |-> 1]]
    /\ lists' = [lists EXCEPT ![CallerList(t)] = << >>, ![OwnList(t)] = FreshList(@)]
    /\ UNCHANGED << rules, done >>
    /\ UNCHANGED pvars
    /\ UNCHANGED lvars

\* lines 18-20: one pass of the filter loop
FilterStep(t) ==
    /\ th[t].pc = "filter"
    /\ th[t].i <= Len(GameList(th[t].g))
    /\ LET suggestion == GameList(th[t].g)[th[t].i]
       IN  lists' = IF check_conditions(rules[suggestion], th[t].st)
                    THEN [lists EXCEPT ![OwnList(t)] = Append(@, suggestion)]
                    ELSE lists
    /\ th' = [th EXCEPT ![t].i = @ + 1]
    /\ UNCHANGED << rules, done, started >>
    /\ UNCHANGED pvars
    /\ UNCHANGED lvars

\* line 23, after the loop ended; an entry without 'priority' raises, and
\* lines 28-30 return []
Sort(t) ==
    /\ th[t].pc = "filter"
    /\ th[t].i > Len(GameList(th[t].g))
    /\ LET g == th[t].g
           target == SortTarget(t, g)
       IN  IF \E p \in 1..Len(lists[target]) : rules[lists[target][p]].priority.t = "absent"
           THEN /\ done' = Append(done, [st |-> th[t].st, g |-> g, val |-> << >>])
                /\ th' = [th EXCEPT ![t] = Idle]
                /\ lists' = lists
           ELSE /\ lists' = [lists EXCEPT ![target] = SortByPriority(rules, @)]
                /\ th' = [th EXCEPT ![t].pc = "slice"]
                /\ done' = done
    /\ UNCHANGED << rules, started >>
    /\ UNCHANGED pvars
    /\ UNCHANGED lvars

\* line 26: return active_suggestions[:3]; the caller holds the list
Return(t) ==
    /\ th[t].pc = "slice"
    /\ done' = Append(done, [st |-> th[t].st, g |-> th[t].g, val |-> Top3(lists[OwnList(t)])])
    /\ lists' = [lists EXCEPT ![ReturnedList(t, th[t].g)] = Top3(lists[OwnList(t)])]
    /\ th' = [th EXCEPT ![t].pc = "caller"]
    /\ UNCHANGED << rules, started >>
    /\ UNCHANGED pvars
    /\ UNCHANGED lvars

\* an entry the caller makes: a dict that is no rule of the table
CallerEntry == << "caller", 0 >>

\* the caller appends an entry to the list it was given, as update() does
\* with the ML and the vision suggestions, and is done with the call
Extend(t) ==
    /\ th[t].pc = "caller"
    /\ lists' = [lists EXCEPT ![ReturnedList(t, th[t].g)] = Append(@, CallerEntry)]
    /\ th' = [th EXCEPT ![t] = Idle]
    /\ UNCHANGED << rules, done, started >>
    /\ UNCHANGED pvars
    /\ UNCHANGED lvars

\* the pipeline with the shipped table, and no call in progress
InitThreads ==
    /\ PipelineParked
    /\ LoopParked
    /\ lists = LoadedLists(SUGGESTIONS)
    /\ rules = LoadedRules(SUGGESTIONS)
    /\ th = [t \in Threads |-> Idle]
    /\ done = << >>
    /\ started = 0

NextThreads ==
    \/ \E t \in Threads : \E st \in ThreadStates : \E g \in ThreadGames : Begin(t, st, g)
    \/ \E t \in Threads : FilterStep(t)
    \/ \E t \in Threads : Sort(t)
    \/ \E t \in Threads : Return(t)
    \/ \E t \in Threads : Extend(t)

SpecThreads == InitThreads /\ [][NextThreads]_vars

\* the table of the threads' pipeline is what was loaded: every domain's
\* list holds the same rules in the same order, and every rule dict has
\* the same id, text, priority and conditions
CatalogAsLoaded ==
    /\ \A g \in DOMAIN SUGGESTIONS : lists[g] = LoadedLists(SUGGESTIONS)[g]
    /\ rules = LoadedRules(SUGGESTIONS)

\* what a call returns when it runs alone on the loaded table, as references
AloneTable ==
    [st \in ThreadStates, g \in ThreadGames |->
        LET v == get_suggestions(SUGGESTIONS, st, g).val
        IN  [p \in 1..Len(v) |-> << g, v[p] >>]]

\* C12: any two calls that returned, with the same state and the same
\* domain, returned identical lists, whatever calls came between them.
C12_Idempotent ==
    \A j, k \in 1..Len(done) :
        (done[j].st = done[k].st /\ done[j].g = done[k].g) => done[j].val = done[k].val

\* C12 witness: a call returned three rules, a call with another state
\* returned after it, and then a call with the first state and domain
\* returned the same three rules.
C12_Witness ==
    /\ Len(done) >= 3
    /\ done[1].st = done[3].st /\ done[1].g = done[3].g
    /\ done[2].st # done[1].st
    /\ Len(done[2].val) > 0
    /\ Len(done[1].val) = 3
    /\ done[3].val = done[1].val

\* C14: no call changes the table (every domain's list keeps its rules and
\* their order, every rule its id, text, priority and conditions), and no
\* step of a call changes the state the call was given.
C14_CatalogAndStateUnchanged ==
    /\ []CatalogAsLoaded
    /\ [][\A t \in Threads :
            (th[t].pc # "idle" /\ th'[t].pc # "idle") => th'[t].st = th[t].st]_vars

\* C14 witness: three calls returned, one of them with a sorted and cut
\* list of valorant rules, and the table is as loaded.
C14_Witness ==
    /\ Len(done) >= 3
    /\ \E k \in 1..Len(done) : done[k].g = "valorant" /\ Len(done[k].val) = 3
    /\ \E k \in 1..Len(done) : done[k].g = "csgo" /\ Len(done[k].val) = 1
    /\ CatalogAsLoaded

\* C18: every call that returned, however its steps were interleaved with
\* those of the other thread, returned what it returns when run alone, and
\* the table is as loaded.
C18_ConcurrentAsAlone ==
    /\ \A k \in 1..Len(done) : done[k].val = AloneTable[done[k].st, done[k].g]
    /\ CatalogAsLoaded

\* C18 witness: a call has returned three rules, and two calls with
\* different states are in progress at once, both past their sort, each
\* with its own list of matches.
C18_Witness ==
    /\ Len(done) >= 1 /\ Len(done[1].val) = 3
    /\ th["t1"].pc = "slice" /\ th["t2"].pc = "slice"
    /\ th["t1"].st # th["t2"].st
    /\ Len(lists["t1"]) > 3 /\ Len(lists["t2"]) > 0
    /\ lists["t1"] # lists["t2"]

---------------------------------------------------------------------------
(* The list a call returns.                                                *)

\* the list object thread t's caller holds
HeldBy(t) == lists[ReturnedList(t, th[t].g)]

\* C27: the list a call returns is a list of its own: whatever the callers
\* have appended to the lists they were given, every domain's list of the
\* table has its length and its rules in their order and holds no entry of
\* a caller, an appended entry is in the caller's list only (which is the
\* returned rules and then the entry), and any two calls with the same
\* state and domain returned the same rules, the later as the earlier.
C27_ReturnedListIsFresh ==
    /\ \A g \in DOMAIN SUGGESTIONS :
          /\ Len(lists[g]) = Len(SUGGESTIONS[g])
          /\ \A p \in 1..Len(lists[g]) : lists[g][p] = << g, p >>
    /\ \A t \in Threads :
          /\ \A p \in 1..Len(lists[OwnList(t)]) : lists[OwnList(t)][p] # CallerEntry
          /\ (th[t].pc = "caller") =>
                \E k \in 1..Len(done) : HeldBy(t) = done[k].val
          /\ (th[t].pc = "idle" /\ HeldBy(t) # << >>) =>
                \E k \in 1..Len(done) : HeldBy(t) = Append(done[k].val, CallerEntry)
    /\ \A j, k \in 1..Len(done) :
          (j < k /\ done[j].st = done[k].st /\ done[j].g = done[k].g) =>
              /\ Len(done[k].val) = Len(done[j].val)
              /\ \A p \in 1..Len(done[k].val) :
                    done[k].val[p] = done[j].val[p] /\ done[k].val[p] # CallerEntry

\* C27 witness: three calls with one state for valorant returned, each the
\* same two rules; with two threads, one of them made two of the calls,
\* and appended to the list of its first call before it began the second.
\* Both callers have appended, and hold lists of three entries.
C27_Witness ==
    /\ Len(done) = 3
    /\ \A k \in 1..3 : done[k].g = "valorant" /\ done[k].st = done[1].st
    /\ Len(done[1].val) = 2
    /\ \A t \in Threads :
          /\ th[t].pc = "idle"
          /\ Len(lists[ReturnedList(t, "valorant")]) = 3
          /\ lists[ReturnedList(t, "valorant")][3] = CallerEntry
    /\ Len(lists["valorant"]) = 16

\* the keys the conditions of a well-formed rule name
KeysOf(rule) == {rule.conditions.items[j].key : j \in 1..Len(rule.conditions.items)}

\* the rules of a table
RulesOf(table) == UNION {{table[g][i] : i \in 1..Len(table[g])} : g \in DOMAIN table}

\* C13: a step that adds to the state a field that a rule's conditions do
\* not name leaves that rule's match outcome as it was, for every rule of
\* the loaded table and of the shipped one (so does any number of such
\* steps).
C13_UnnamedFieldsIrrelevant ==
    [][(pc = "build" /\ pc' = "build") =>
          \A rule \in RulesOf(suggestions) \cup RulesOf(SUGGESTIONS) :
              (DOMAIN state'.f \ DOMAIN state.f) \cap KeysOf(rule) = {}
              => (check_conditions(rule, state') <=> check_conditions(rule, state))]_vars

\* C13 witness: the rule names only "combat" and matches a state that,
\* besides combat, holds two fields the rule does not name.
C13_Witness ==
    /\ pc = "build"
    /\ loaded.base = "generated"
    /\ KeysOf(suggestions["valorant"][1]) = {"combat"}
    /\ state.t = "dict"
    /\ DOMAIN state.f = {"combat", "abilities", "player_health"}
    /\ check_conditions(suggestions["valorant"][1], state)

---------------------------------------------------------------------------
(* The shipped table with given states.                                    *)

\* the call was made for domain g with the mapping that holds exactly the
\* fields of f
CalledWith(g, f) == Returned /\ game = g /\ state.t = "dict" /\ state.f = f

\* position p of the result holds the rule at place i of the domain, and
\* that rule has the given id and priority
ResultHas(p, i, id, priority) ==
    /\ p \in 1..Len(result)
    /\ result[p] = i
    /\ CatalogOfGame[i].id = id
    /\ CatalogOfGame[i].priority = PyInt(priority)

\* C15: for the state {} and domain "valorant" the result is exactly one
\* entry, default_tip with priority 99, and every other valorant rule names
\* at least one condition key.
C15_EmptyStateDefaultOnly ==
    CalledWith("valorant", EmptyState.f) =>
        /\ Len(result) = 1
        /\ ResultHas(1, result[1], "default_tip", 99)
        /\ \A i \in 1..Len(CatalogOfGame) : i # result[1] => KeysOf(CatalogOfGame[i]) # {}

\* C15 witness: the call with {} for "valorant" returned the one rule
\* without conditions, out of 16 rules.
C15_Witness ==
    /\ CalledWith("valorant", EmptyState.f)
    /\ Len(CatalogOfGame) = 16
    /\ Len(result) = 1
    /\ KeysOf(CatalogOfGame[result[1]]) = {}

\* the state {"exposed": True}
ExposedOnly == Put(EmptyState.f, "exposed", Lift(PyBool(TRUE)))

\* C16: for the state {"exposed": True} and domain "valorant" the result
\* holds exposed_warning with priority 2 and no rule whose conditions name
\* combat or team_money.
C16_ExposedState ==
    CalledWith("valorant", ExposedOnly) =>
        /\ \E p \in 1..Len(result) : ResultHas(p, result[p], "exposed_warning", 2)
        /\ \A p \in 1..Len(result) :
              KeysOf(CatalogOfGame[result[p]]) \cap {"combat", "team_money"} = {}

\* C16 witness: the call with {"exposed": True} returned exposed_warning
\* first, while the table holds rules that name combat and team_money.
C16_Witness ==
    /\ CalledWith("valorant", ExposedOnly)
    /\ ResultHas(1, 2, "exposed_warning", 2)
    /\ \E i \in 1..Len(CatalogOfGame) : "combat" \in KeysOf(CatalogOfGame[i])
    /\ \E i \in 1..Len(CatalogOfGame) : "team_money" \in KeysOf(CatalogOfGame[i])

\* the state {"team_money": "low", "round_time": "late"}
LowMoneyLate ==
    Put(Put(EmptyState.f, "team_money", Lift(PyStr("low"))), "round_time", Lift(PyStr("late")))

\* C17: for the state {"team_money": "low", "round_time": "late"} and domain
\* "csgo" the result holds the save_money rule of csgo (the second csgo
\* rule, priority 2).
C17_CsgoSaveMoney ==
    CalledWith("csgo", LowMoneyLate) =>
        \E p \in 1..Len(result) : ResultHas(p, 2, "save_money", 2)

\* C17 witness: that call returned the csgo rule save_money and nothing else.
C17_Witness ==
    /\ CalledWith("csgo", LowMoneyLate)
    /\ Len(result) = 1
    /\ ResultHas(1, 2, "save_money", 2)
    /\ KeysOf(CatalogOfGame[2]) = {"team_money", "round_time"}

\* in each domain of SUGGESTIONS no two rules have the same id
ShippedIdsUnique ==
    \A g \in DOMAIN SUGGESTIONS :
        \A i, j \in 1..Len(SUGGESTIONS[g]) :
            i # j => SUGGESTIONS[g][i].id # SUGGESTIONS[g][j].id

\* C20: the table of the pipeline is SUGGESTIONS, before and after every
\* call, and in each of its domains (valorant, csgo, dota2) no two rules
\* have the same id.
C20_UniqueIds == loaded = Shipped /\ ShippedIdsUnique

\* C20 witness: the table has the three domains with 16, 2 and 2 rules, and
\* a call returned three rules with three ids; save_money is an id of two
\* domains.
C20_Witness ==
    /\ DOMAIN suggestions = {"valorant", "csgo", "dota2"}
    /\ Len(suggestions["valorant"]) = 16
    /\ Len(suggestions["csgo"]) = 2
    /\ Len(suggestions["dota2"]) = 2
    /\ suggestions["valorant"][3].id = suggestions["csgo"][2].id
    /\ Returned /\ game = "valorant" /\ Len(result) = 3
    /\ Cardinality({CatalogOfGame[result[p]].id : p \in 1..3}) = 3

---------------------------------------------------------------------------
(* The update loop of main(): the callback update() of the 100 ms timer,   *)
(* with the detector, the data collector, the pipeline, the ML model, the  *)
(* vision suggester and the overlay it calls.                              *)

\* the most timer ticks of a behaviour
MaxTicks == 3

\* the labels setup_ui creates
NumLabels == 3

\* a list value; no rule and no label reads its elements
PyList(len) == [t |-> "list", n |-> len, s |-> "", d |-> NoSub]

DetectorKeys ==
    { "combat", "utility_available", "round_time", "team_money", "exposed",
      "player_health", "player_armor", "player_position", "enemy_positions",
      "spike_location", "site_control", "enemy_presence", "teammate_with_smoke",
      "teammate_with_flash", "teammate_with_healing", "need_coordination",
      "abilities", "equipped_gun" }

\* Mutant of DetectorState: a detector fills ultimate_available and
\* spike_available, as the combat detector fills combat.
DetectorStateWithUltimate(combat) ==
    [t |-> "dict",
     f |-> [k \in DetectorKeys \cup {"ultimate_available", "spike_available"} |->
              CASE k = "combat" -> Lift(PyBool(combat))
                [] k = "ultimate_available" -> Lift(PyBool(combat))
                [] k = "spike_available" -> Lift(PyBool(combat))
                [] k = "round_time" -> Lift(PyStr("mid"))
                [] k = "team_money" -> Lift(PyStr("medium"))
                [] k = "player_health" -> Lift(PyInt(100))
                [] k = "player_armor" -> Lift(PyInt(0))
                [] k = "player_position" -> PyList(2)
                [] k = "enemy_positions" -> PyList(0)
                [] k = "spike_location" -> PyList(2)
                [] k = "abilities" -> Abilities(PyBool(combat), PyBool(combat))
                [] k = "equipped_gun" -> Lift(PyStr("Classic"))
                [] OTHER -> Lift(PyBool(FALSE))]]

\* GameStateDetector('valorant').process_frame(frame): every detector but
\* _detect_combat returns a constant; combat is what _detect_combat finds
\* in the frame
DetectorState(combat) ==
    [t |-> "dict",
     f |-> [k \in DetectorKeys |->
              CASE k = "combat" -> Lift(PyBool(combat))
                [] k = "round_time" -> Lift(PyStr("mid"))
                [] k = "team_money" -> Lift(PyStr("medium"))
                [] k = "player_health" -> Lift(PyInt(100))
                [] k = "player_armor" -> Lift(PyInt(0))
                [] k = "player_position" -> PyList(2)
                [] k = "enemy_positions" -> PyList(0)
                [] k = "spike_location" -> PyList(2)
                [] k = "abilities" -> Abilities(PyBool(combat), PyBool(combat))
                [] k = "equipped_gun" -> Lift(PyStr("Classic"))
                [] OTHER -> Lift(PyBool(FALSE))]]

\* an entry of the list given to the overlay: where it comes from, and its
\* 'text' and 'priority' (absent when the dict has no such key)
RuleEntry(table, g, i) ==
    [src |-> "rule", ref |-> i, text |-> PyStr(table[g][i].text),
     priority |-> table[g][i].priority]

\* an entry of postprocess_output: 'title', 'message' and 'priority', no 'text'
MLEntry(priority) == [src |-> "ml", ref |-> 0, text |-> Absent, priority |-> PyInt(priority)]

\* the entry update() builds from the caption of the vision suggester
VisionEntry(caption) ==
    [src |-> "vision", ref |-> 0, text |-> PyStr(caption), priority |-> PyInt(2)]

\* ml_predictions['suggestions'] for a detector state (not exposed, no
\* utility): none (also when predict caught an exception), the recommended
\* action, the strategy, or both
MLOutputs ==
    { << >>, << MLEntry(1) >>, << MLEntry(2) >>, << MLEntry(1), MLEntry(2) >> }

\* vision_ai.suggest(frame): it raises, or returns '' or a caption
VisionOutputs == {"raise", "", "Vision AI: caption"}

Blank == [text |-> "", style |-> "normal"]

\* Mutant of ClearLabels: the labels are not cleared before they are set.
KeepLabels(ls) == ls

\* lines 253-264 of update_suggestions: every label cleared
ClearLabels(ls) == [i \in 1..Len(ls) |-> Blank]

\* lines 270-296: the text and the style a label gets from an entry
SetLabel(entry) ==
    [text |-> IF entry.text.t = "absent" THEN "" ELSE entry.text.s,
     style |-> LET priority == IF entry.priority.t = "absent" THEN PyInt(3) ELSE entry.priority
               IN  IF PyEqScalar(priority, PyInt(1)) THEN "critical"
                   ELSE IF PyEqScalar(priority, PyInt(2)) THEN "warning"
                   ELSE "normal"]

\* Mutant of update_suggestions: no test i < len(self.suggestion_labels);
\* the entries beyond the last label wrap around to the first labels.
update_suggestions_wrapping(ls, list) ==
    IF Len(ls) = 0 THEN ls
    ELSE LET cleared == ClearLabels(ls)
             last(i) == CHOOSE p \in 1..Len(list) :
                           /\ (p - 1) % Len(ls) = i - 1
                           /\ \A q \in 1..Len(list) :
                                 (q - 1) % Len(ls) = i - 1 => q <= p
         IN  [i \in 1..Len(ls) |->
                 IF i <= Len(list) THEN SetLabel(list[last(i)]) ELSE cleared[i]]

\* OverlayWindow.update_suggestions: the labels after the call (the window
\* is shown already, and stays shown)
update_suggestions(ls, list) ==
    IF Len(ls) = 0 THEN ls
    ELSE LET cleared == ClearLabels(ls)
         IN  [i \in 1..Len(ls) |->
                 IF i <= Len(list) THEN SetLabel(list[i]) ELSE cleared[i]]

\* Mutant of Merge: the merged list is sorted by priority before it is
\* given to the overlay.
MergeSorted(pipeline_result, ml, vision) ==
    LET extended == [p \in 1..Len(pipeline_result) |->
                        RuleEntry(suggestions, "valorant", pipeline_result[p])] \o ml
        merged == IF vision \in {"raise", ""} THEN extended
                  ELSE Append(extended, VisionEntry(vision))
        order == SortByPriority(merged, [p \in 1..Len(merged) |-> p])
    IN  [p \in 1..Len(merged) |-> merged[order[p]]]

\* lines 64-80 of update(): the pipeline's list, extended with the ML
\* suggestions, and with the vision entry when there is a caption
Merge(pipeline_result, ml, vision) ==
    LET extended == [p \in 1..Len(pipeline_result) |->
                        RuleEntry(suggestions, "valorant", pipeline_result[p])] \o ml
    IN  IF vision \in {"raise", ""} THEN extended
        ELSE Append(extended, VisionEntry(vision))

\* GameDataCollector.record_state(state): one record appended, its
\* action None
record_state(current_session, st, at) ==
    Append(current_session, [timestamp |-> at, state |-> st, action |-> PyNone])

\* where an exception escapes to the handler of update(): nowhere, before
\* record_state (lines 44-58), or after get_suggestions (line 69)
Escapes == {"none", "process", "extend"}

\* Mutant of HandlerList: the handler shows what the cycle had built.
HandlerListBuilt(built) == built

\* line 95: the list the handler of update() gives to the overlay, whatever
\* the cycle had built
HandlerList(built) == << >>

\* lines 41, 88, 91 and 95: one call of overlay.update_suggestions
Refresh(list) ==
    /\ labels' = update_suggestions(labels, list)
    /\ handed' = list
    /\ refreshed' = refreshed + 1

\* one execution of update(): frame is FALSE when capture_screen returned
\* None; combat is what _detect_combat finds in the frame.  What the ML
\* model and the vision suggester give, and where an exception escapes, are
\* drawn inside.
Update(frame, combat) ==
    /\ ticks < MaxTicks
    /\ ticks' = ticks + 1
    /\ now' = now + 1
    /\ captured' = frame
    /\ IF ~frame
       THEN /\ Refresh(<< >>)
            /\ threw' = FALSE
            /\ faulted' = FALSE
            /\ ml_out' = << >>
            /\ vision_out' = "not_called"
            /\ UNCHANGED << session, asked, state, game, active, result, raised, pc >>
       ELSE \E st \in {DetectorState(combat)} :
            \E body \in {GetBody(suggestions, st, "valorant")} :
            \E r \in {get_suggestions(suggestions, st, "valorant")} :
            \E ml \in MLOutputs : \E vision \in VisionOutputs : \E escape \in Escapes :
                IF escape = "process"
                THEN /\ Refresh(HandlerList(<< >>))
                     /\ threw' = TRUE
                     /\ faulted' = FALSE
                     /\ ml_out' = << >>
                     /\ vision_out' = "not_called"
                     /\ UNCHANGED << session, asked, state, game, active, result,
                                     raised, pc >>
                ELSE /\ state' = st
                     /\ session' = record_state(session, st, now)
                     /\ ml_out' = ml
                     /\ asked' = asked + 1
                     /\ game' = "valorant"
                     /\ active' = r.active
                     /\ result' = r.val
                     /\ raised' = r.exc
                     /\ faulted' = body.exc
                     /\ pc' = "returned"
                     /\ IF escape = "extend"
                        THEN /\ Refresh(HandlerList(Merge(r.val, << >>, "")))
                             /\ threw' = TRUE
                             /\ vision_out' = "not_called"
                        ELSE /\ Refresh(Merge(r.val, ml, vision))
                             /\ threw' = FALSE
                             /\ vision_out' = vision
    /\ UNCHANGED << loaded, session_start, files >>
    /\ UNCHANGED tvars

\* main() before the first tick: the shipped table, or the shipped table
\* with one malformed valorant rule (update() asks for 'valorant' only);
\* 3 empty labels, an empty session
InitLoop ==
    /\ ThreadsParked
    /\ \/ loaded = Shipped
       \/ \E i \in 1..Len(SUGGESTIONS["valorant"]) :
             \E kind \in FaultKinds : loaded = Faulty("valorant", i, kind)
    /\ state = EmptyState
    /\ game = ""
    /\ active = << >>
    /\ result = << >>
    /\ raised = FALSE
    /\ pc = "build"
    /\ labels = [i \in 1..NumLabels |-> Blank]
    /\ handed = << >>
    /\ ticks = 0
    /\ session = << >>
    /\ captured = FALSE
    /\ faulted = FALSE
    /\ threw = FALSE
    /\ ml_out = << >>
    /\ vision_out = "not_called"
    /\ refreshed = 0
    /\ asked = 0
    /\ session_start = 0
    /\ files = << >>
    /\ now = 0

NextLoop == \E frame \in BOOLEAN : \E combat \in BOOLEAN : Update(frame, combat)

SpecLoop == InitLoop /\ [][NextLoop]_vars

\* the text an entry puts on a label
TextOf(entry) == IF entry.text.t = "absent" THEN "" ELSE entry.text.s

\* label i shows the text of entry i of the list, and the labels beyond the
\* list show nothing
Shows(list) ==
    \A i \in 1..NumLabels :
        labels[i].text = IF i <= Len(list) THEN TextOf(list[i]) ELSE ""

\* C19 as claimed: after a tick in which get_suggestions caught an internal
\* fault the overlay shows no suggestion, and after a tick without a fault
\* it shows that tick's suggestions.
C19_FaultShowsNothing ==
    (ticks > 0 /\ captured) =>
        /\ faulted => \A i \in 1..NumLabels : labels[i].text = ""
        /\ ~faulted => Shows(handed)

\* C19 as amended: after a tick in which get_suggestions caught an internal
\* fault the overlay shows no rule of the table, only that tick's ML and
\* vision entries; after a tick without a fault (and without an exception
\* that reached the handler of update()) the list starts with the rules
\* that get_suggestions returned; after either the labels show that tick's
\* list and nothing of an earlier tick.
C19_FaultShowsNoRule ==
    (ticks > 0 /\ captured) =>
        /\ Shows(handed)
        /\ faulted => \A p \in 1..Len(handed) : handed[p].src # "rule"
        /\ (~faulted /\ ~threw) =>
              /\ Len(handed) >= Len(result)
              /\ \A p \in 1..Len(handed) :
                    handed[p].src = "rule" <=> p <= Len(result)
              /\ \A p \in 1..Len(result) : handed[p].ref = result[p]

\* C19 witness: use_ability_q has no priority, so the tick that recorded
\* the first state (combat) had the fault; the last tick (no combat) had
\* none, and the overlay shows its one suggestion, default_tip, and
\* nothing else.
C19_Witness ==
    /\ loaded = Faulty("valorant", 13, "no_priority")
    /\ Len(session) >= 2
    /\ PyEq(session[1].state.f["combat"], Lift(PyBool(TRUE)))
    /\ GetBody(suggestions, session[1].state, "valorant").exc
    /\ captured /\ ~faulted /\ ~threw
    /\ PyEq(state.f["combat"], Lift(PyBool(FALSE)))
    /\ Len(handed) = 1
    /\ handed[1].src = "rule"
    /\ labels[1].text = suggestions["valorant"][16].text
    /\ labels[2] = Blank /\ labels[3] = Blank

---------------------------------------------------------------------------
(* The running system: the shipped table with the states of the detector.  *)

\* the positions of use_ultimate and plant_spike in the shipped valorant
\* list
DeadRules ==
    {i \in 1..Len(SUGGESTIONS["valorant"]) :
        SUGGESTIONS["valorant"][i].id \in {"use_ultimate", "plant_spike"}}

\* the keys the conditions of rule i of the shipped valorant list name
NamedKeys(i) ==
    {SUGGESTIONS["valorant"][i].conditions.items[j].key :
        j \in 1..Len(SUGGESTIONS["valorant"][i].conditions.items)}

\* a tick of the update loop has called the pipeline with the shipped table
TickedShipped == ticks > 0 /\ pc = "returned" /\ loaded = Shipped

\* C21: with the shipped table, use_ultimate and plant_spike are dead in
\* the running system: each names a key (ultimate_available,
\* spike_available) that no state of the valorant detector holds, so for
\* every such state neither matches, neither is in the list get_suggestions
\* returns, and neither is in the list given to the overlay.
C21_DeadRules ==
    TickedShipped =>
        \A i \in DeadRules :
            /\ NamedKeys(i) \ DOMAIN state.f # {}
            /\ ~InActive(i)
            /\ ~InResult(i)
            /\ \A p \in 1..Len(handed) : handed[p].src = "rule" => handed[p].ref # i

\* C21 witness: a tick with a combat frame; combat, the other condition of
\* use_ultimate, holds of the state, the two keys are missing from it, and
\* three other rules were returned.
C21_Witness ==
    /\ TickedShipped
    /\ Cardinality(DeadRules) = 2
    /\ PyEq(state.f["combat"], Lift(PyBool(TRUE)))
    /\ "ultimate_available" \notin DOMAIN state.f
    /\ "spike_available" \notin DOMAIN state.f
    /\ \A i \in DeadRules : ~InActive(i)
    /\ Len(result) = 3

---------------------------------------------------------------------------
(* The catch-all rule of the shipped table.                                *)

\* the position of default_tip in the shipped valorant list
DefaultTip ==
    CHOOSE i \in 1..Len(SUGGESTIONS["valorant"]) :
        SUGGESTIONS["valorant"][i].id = "default_tip"

\* the rules of the shipped valorant list, default_tip aside, that the
\* state satisfies
OthersMatching ==
    {i \in 1..Len(SUGGESTIONS["valorant"]) \ {DefaultTip} :
        Satisfies(SUGGESTIONS["valorant"][i], state)}

\* C22: default_tip has priority 99, strictly greater than the priority of
\* every other valorant rule; whenever a valorant call returns it, it is
\* the last entry of the result; and it is returned iff fewer than 3 other
\* valorant rules match the state.
C22_DefaultLast ==
    /\ SUGGESTIONS["valorant"][DefaultTip].priority = PyInt(99)
    /\ \A i \in 1..Len(SUGGESTIONS["valorant"]) \ {DefaultTip} :
          SUGGESTIONS["valorant"][i].priority.n < 99
    /\ (Returned /\ game = "valorant" /\ loaded = Shipped) =>
          /\ InResult(DefaultTip) => result[Len(result)] = DefaultTip
          /\ InResult(DefaultTip) <=> Cardinality(OthersMatching) < TopK

\* C22 witness: a valorant call with two other matching rules returned
\* three rules, default_tip last.
C22_Witness ==
    /\ Returned /\ game = "valorant" /\ loaded = Shipped
    /\ Cardinality(OthersMatching) = 2
    /\ Len(result) = 3
    /\ result[3] = DefaultTip
    /\ ResultPriority(2) < ResultPriority(3)

---------------------------------------------------------------------------
(* The panel of the overlay.                                               *)

\* C23: after every call update_suggestions(L), whatever the length of L,
\* the panel has its 3 labels; label i shows the text of entry i of L
\* ('' for an entry without 'text') for every i up to min(3, len(L)), and
\* every other label is empty: nothing beyond the third entry is shown and
\* nothing of an earlier call remains.
C23_PanelShowsFirstThree ==
    refreshed > 0 =>
        /\ Len(labels) = NumLabels
        /\ \A i \in 1..Len(labels) :
              /\ i <= Len(handed) => labels[i].text = TextOf(handed[i])
              /\ i > Len(handed) => labels[i] = Blank
        /\ \A p \in (NumLabels + 1)..Len(handed) : \A i \in 1..Len(labels) :
              labels[i].text = TextOf(handed[p]) => TextOf(handed[i]) = TextOf(handed[p])

\* C23 witness: the second call got 6 entries (3 rules, 2 ML entries and
\* the vision entry); the panel shows the 3 rules and not the caption.
C23_Witness ==
    /\ refreshed = 2
    /\ Len(session) = 2
    /\ ~threw
    /\ Len(handed) = 6
    /\ \A i \in 1..NumLabels :
          handed[i].src = "rule" /\ labels[i].text = TextOf(handed[i]) /\ labels[i].text # ""
    /\ handed[6].src = "vision"
    /\ \A i \in 1..NumLabels : labels[i].text # TextOf(handed[6])

\* C24: with the shipped table, a valorant call with a state that is a
\* mapping returns a non-empty list; csgo and dota2 have no rule without
\* conditions, and their calls with the empty state return the empty list.
C24_ValorantNeverEmpty ==
    /\ \A g \in {"csgo", "dota2"} : \A i \in 1..Len(SUGGESTIONS[g]) :
          SUGGESTIONS[g][i].conditions.items # << >>
    /\ (Returned /\ loaded = Shipped /\ state.t = "dict") =>
          /\ game = "valorant" => result # << >>
          /\ (game \in {"csgo", "dota2"} /\ state = EmptyState) => result = << >>

\* C24 witness: a valorant call with a mapping of MaxFields fields that
\* satisfies no rule with conditions returned the catch-all rule alone.
C24_Witness ==
    /\ Returned /\ loaded = Shipped /\ game = "valorant"
    /\ state.t = "dict"
    /\ Cardinality(DOMAIN state.f) = MaxFields
    /\ OthersMatching = {}
    /\ result = << DefaultTip >>

\* the ids of the rules of the shipped valorant list at the positions of xs
IdsOf(xs) == [p \in 1..Len(xs) |-> SUGGESTIONS["valorant"][xs[p]].id]

\* C25: with the shipped table, every state the valorant detector produces
\* has the 18 detector keys with the constants of the stub detectors and
\* abilities Q and E equal to combat, and get_suggestions returns for it
\* [default_tip] when combat is false and [use_ability_q, use_ability_e,
\* switch_to_rifle] when combat is true; the running system sees no other
\* result.
C25_TwoResults ==
    TickedShipped =>
        /\ \E combat \in BOOLEAN :
              /\ state = DetectorState(combat)
              /\ state.f["abilities"].d["Q"] = PyBool(combat)
              /\ state.f["abilities"].d["E"] = PyBool(combat)
        /\ state.f["combat"] = Lift(PyBool(FALSE)) =>
              IdsOf(result) = << "default_tip" >>
        /\ state.f["combat"] = Lift(PyBool(TRUE)) =>
              IdsOf(result) = << "use_ability_q", "use_ability_e", "switch_to_rifle" >>
        /\ ~raised

\* C25 witness: the loop has seen both results, the combat one in the
\* first tick and the other in the last.
C25_Witness ==
    /\ TickedShipped
    /\ Len(session) = 2
    /\ session[1].state = DetectorState(TRUE)
    /\ state = DetectorState(FALSE)
    /\ IdsOf(result) = << "default_tip" >>
    /\ IdsOf(get_suggestions(suggestions, session[1].state, "valorant").val)
          = << "use_ability_q", "use_ability_e", "switch_to_rifle" >>

---------------------------------------------------------------------------
(* The names of the domains.                                               *)

---------------------------------------------------------------------------
(* The list of a cycle.                                                    *)

\* the entries of the rules at the positions of xs, in the order of xs
RuleEntries(xs) == [p \in 1..Len(xs) |-> RuleEntry(suggestions, "valorant", xs[p])]

\* the entry of the vision suggester, when it gave a caption
VisionPart(v) == IF v \in {"not_called", "raise", ""} THEN << >> ELSE << VisionEntry(v) >>

\* C28: in every cycle that captured a frame and ran to its end (no
\* exception reached the handler of update()), the list given to the
\* overlay is the rules get_suggestions returned (at most 3, in the order
\* it returned them), then the ML suggestions in their order, then the
\* vision entry if there is a caption, with no sorting of the whole; so a
\* label shows an ML or vision entry only when fewer than 3 rules were
\* returned, and only below the rules.
C28_PipelineFirstNoResort ==
    [][(ticks' = ticks + 1 /\ captured' /\ ~threw') =>
          /\ Len(result') <= TopK
          /\ handed' = RuleEntries(result') \o ml_out' \o VisionPart(vision_out')
          /\ \A i \in 1..NumLabels :
                (i <= Len(handed') /\ handed'[i].src # "rule") =>
                    /\ Len(result') < TopK
                    /\ i > Len(result')
                    /\ labels'[i].text = TextOf(handed'[i])
      ]_vars

\* C28 witness: the shown items are not in ascending priority: the
\* pipeline returned default_tip (priority 99) alone, the ML model a
\* suggestion of priority 1 and the vision suggester a caption (priority
\* 2); the labels show them in this order.
C28_Witness ==
    /\ ticks > 0 /\ captured /\ ~threw
    /\ Len(result) = 1
    /\ Len(handed) = 3
    /\ handed[1].src = "rule" /\ handed[1].priority = PyInt(99)
    /\ handed[2].src = "ml" /\ handed[2].priority = PyInt(1)
    /\ handed[3].src = "vision" /\ handed[3].priority = PyInt(2)
    /\ labels[1].style = "normal" /\ labels[2].style = "critical"
    /\ labels[3].style = "warning"
    /\ labels[3].text = TextOf(handed[3])

---------------------------------------------------------------------------
(* The refresh of a cycle.                                                 *)

\* the step is one execution of update()
Tick == ticks' = ticks + 1

\* C29 as claimed: every execution of update() calls
\* overlay.update_suggestions once, with the empty list when the capture
\* gave no frame or when a step of the cycle raised (vision_ai.suggest is
\* such a step); and a cycle with no frame records no state and does not
\* call get_suggestions.
C29_EmptyWhenAnyStepRaises ==
    [][Tick =>
          /\ refreshed' = refreshed + 1
          /\ (~captured' \/ threw' \/ vision_out' = "raise") => handed' = << >>
          /\ ~captured' => (session' = session /\ asked' = asked)
      ]_vars

\* C29 as amended: every execution of update() calls
\* overlay.update_suggestions once; with the empty list when the capture
\* gave no frame or when an exception reached the handler of update(), and
\* then every label is empty; when vision_ai.suggest raises, the exception
\* is caught inside the cycle and the overlay is given the rules and the
\* ML suggestions of the cycle, without a vision entry; and a cycle with
\* no frame records no state and does not call get_suggestions.
C29_EmptyWhenHandlerRuns ==
    /\ [](refreshed = ticks)
    /\ [][Tick =>
            /\ refreshed' = refreshed + 1
            /\ (~captured' \/ threw') =>
                  (handed' = << >> /\ \A i \in 1..NumLabels : labels'[i] = Blank)
            /\ (captured' /\ ~threw' /\ vision_out' = "raise") =>
                  handed' = RuleEntries(result') \o ml_out'
            /\ ~captured' =>
                  /\ session' = session
                  /\ asked' = asked
                  /\ UNCHANGED << state, game, active, result, raised, pc >>
            /\ asked' = Len(session')
        ]_vars

\* C29 witness: the third tick ended in the handler after get_suggestions
\* had returned three rules; the overlay was called a third time, with the
\* empty list, and shows nothing; the second tick had no frame and the
\* first recorded a state, so two states are recorded and two calls made.
C29_Witness ==
    /\ ticks = 3 /\ refreshed = 3
    /\ captured /\ threw
    /\ Len(result) = 3
    /\ handed = << >>
    /\ \A i \in 1..NumLabels : labels[i] = Blank
    /\ Len(session) = 2 /\ asked = 2
    /\ session[1].timestamp = 0 /\ session[2].timestamp = 2

---------------------------------------------------------------------------
(* GameDataCollector: record_state and save_session, with the clock and    *)
(* the session files on disk.                                              *)

\* the last reading of the clock: every call of the collector reads the
\* clock, and the next call reads a later time
MaxClock == 5

\* how many readings of the clock fall into one second
ReadsPerSecond == 2

\* the variables of the update loop that the collector does not have
ovars == << labels, handed, ticks, captured, faulted, threw, ml_out, vision_out,
            refreshed, asked >>

\* the states that are recorded: those of the valorant detector
CollectorStates == {DetectorState(TRUE), DetectorState(FALSE)}

\* what becomes of the write of lines 51-58: the file is written, open()
\* raises, or json.dump raises after open() has created the file
SaveOutcomes == {"written", "open_fails", "dump_fails"}

\* lines 46-48: the name of the session file, from the second of the clock
\* and the success flag
SessionFile(at, success) == [at |-> at, success |-> success]

\* lines 52-58: what json.dump writes
SessionText(success, start, end, records) ==
    [complete |-> TRUE, game |-> "valorant", success |-> success, session_start |-> start,
     session_end |-> end, records |-> records]

\* a file that open() created and json.dump did not finish
Truncated ==
    [complete |-> FALSE, game |-> "", success |-> FALSE, session_start |-> 0,
     session_end |-> 0, records |-> << >>]

\* Mutant of OnSaveFailure: the session is emptied whether or not the file
\* was written.
OnSaveFailureCleared(current_session) == << >>

\* lines 64-65: the handler logs, and current_session is as it was
OnSaveFailure(current_session) == current_session

\* data_collector.record_state(st)
RecordState(st) ==
    /\ now < MaxClock
    /\ now' = now + 1
    /\ session' = record_state(session, st, now)
    /\ UNCHANGED << session_start, files >>
    /\ UNCHANGED ovars
    /\ UNCHANGED pvars
    /\ UNCHANGED tvars

\* data_collector.save_session(success)
SaveSession(success, outcome) ==
    /\ IF session = << >>
       THEN UNCHANGED << session, session_start, files >>
       ELSE \E name \in {SessionFile(now \div ReadsPerSecond, success)} :
               IF outcome = "written"
               THEN /\ files' = Put(files, name,
                                    SessionText(success, session_start, now, session))
                    /\ session' = << >>
                    /\ session_start' = now
               ELSE /\ files' = IF outcome = "dump_fails"
                                THEN Put(files, name, Truncated) ELSE files
                    /\ session' = OnSaveFailure(session)
                    /\ session_start' = session_start
    /\ now < MaxClock
    /\ now' = now + 1
    /\ UNCHANGED ovars
    /\ UNCHANGED pvars
    /\ UNCHANGED tvars

\* GameDataCollector('valorant') as constructed: an empty session that
\* starts now, and no file
InitCollector ==
    /\ PipelineParked
    /\ ThreadsParked
    /\ LoopParked

NextCollector ==
    \/ \E st \in CollectorStates : RecordState(st)
    \/ \E success \in BOOLEAN : \E outcome \in SaveOutcomes : SaveSession(success, outcome)

SpecCollector == InitCollector /\ [][NextCollector]_vars

\* the files that the step wrote or wrote again
Written ==
    {name \in DOMAIN files' : name \notin DOMAIN files \/ files'[name] # files[name]}

====
